---- MODULE Spec2Model ----
(***************************************************************************)
(* netcmp: cross-references netstat snapshots taken on several hosts.      *)
(* The model follows src/netcmp.c: main() reads every file named on the    *)
(* command line with nc_read_file(), which hands each data line to         *)
(* nc_parse_row(); nc_report() then walks the connection tree once.        *)
(*                                                                         *)
(* C strings are sequences of one-character strings; Ord gives the byte    *)
(* value strcmp() compares.  TCP state tokens and file labels are only     *)
(* ever compared for equality and are far shorter than their buffers       *)
(* (ncc_state[16], ncs_label[128]), so they are kept as TLA+ strings.      *)
(***************************************************************************)
EXTENDS Integers, Sequences, FiniteSets, TLC

(***************************************************************************)
(* Bounds of the model.                                                    *)
(***************************************************************************)
MaxLines == 3
MaxFiles == 3

(***************************************************************************)
(* Program constants.                                                      *)
(***************************************************************************)
IPV4_STRBUFSZ == 16
IPV4PORT_BUFSZ == 22
UINT8_MAX == 255
UINT16_MAX == 65535
NULL == [null |-> TRUE]

(***************************************************************************)
(* libc string functions used by the program.                              *)
(***************************************************************************)
Ord == [c \in {"\t", "+", "-", ".", "0", "1", "2", "3", "4", "5", "6", "7",
               "8", "9", ":", "a", "b", "c", "x"} |->
          CASE c = "\t" -> 9 [] c = "+" -> 43 [] c = "-" -> 45 [] c = "." -> 46
            [] c = "0" -> 48 [] c = "1" -> 49 [] c = "2" -> 50
            [] c = "3" -> 51 [] c = "4" -> 52 [] c = "5" -> 53
            [] c = "6" -> 54 [] c = "7" -> 55 [] c = "8" -> 56
            [] c = "9" -> 57 [] c = ":" -> 58 [] c = "a" -> 97
            [] c = "b" -> 98 [] c = "c" -> 99 [] c = "x" -> 120]

IsDigit(c) == Ord[c] >= 48 /\ Ord[c] <= 57

Min(a, b) == IF a < b THEN a ELSE b

\* strcmp(): the sign of the first differing byte, the shorter string first.
RECURSIVE strcmp(_, _)
strcmp(s, t) ==
    IF s = <<>> /\ t = <<>> THEN 0
    ELSE IF s = <<>> THEN -1
    ELSE IF t = <<>> THEN 1
    ELSE IF Ord[Head(s)] < Ord[Head(t)] THEN -1
    ELSE IF Ord[Head(s)] > Ord[Head(t)] THEN 1
    ELSE strcmp(Tail(s), Tail(t))

\* strlcpy(dst, src, size): dst receives at most size - 1 bytes of src.
strlcpy(src, size) == SubSeq(src, 1, Min(Len(src), size - 1))

\* strrchr(str, c): index of the last c in str, 0 for a NULL result.
strrchr(str, c) ==
    LET hits == {i \in 1..Len(str) : str[i] = c}
    IN  IF hits = {} THEN 0 ELSE CHOOSE i \in hits : \A j \in hits : j <= i

\* The run of decimal digits of str starting at index i ends before DigitsEnd.
RECURSIVE DigitsEnd(_, _)
DigitsEnd(str, i) ==
    IF i <= Len(str) /\ IsDigit(str[i]) THEN DigitsEnd(str, i + 1) ELSE i

\* Value of the digits str[i..j-1], saturating above UINT16_MAX: strtol()
\* reports larger values exactly or as LONG_MAX with errno = ERANGE, and
\* the caller rejects every value above UINT16_MAX either way.
RECURSIVE DigitsVal(_, _, _, _)
DigitsVal(str, i, j, acc) ==
    IF i >= j THEN acc
    ELSE DigitsVal(str, i + 1, j,
                   Min(acc * 10 + (Ord[str[i]] - 48), UINT16_MAX + 1))

\* isspace(): of the bytes a token can hold (strtok_r() splits at spaces
\* only) the tab is the white space modelled.
IsSpace(c) == Ord[c] = 9

\* The leading white space of str ends before SpaceEnd.
RECURSIVE SpaceEnd(_, _)
SpaceEnd(str, i) ==
    IF i <= Len(str) /\ IsSpace(str[i]) THEN SpaceEnd(str, i + 1) ELSE i

\* strtol(str, &endp, 10): white space, an optional sign, then digits.
\* With no digit nothing is converted: the value is 0, endp is the start
\* of str and errno is left alone.
strtol(str) ==
    LET sign   == SpaceEnd(str, 1)
        signed == Len(str) >= sign /\ str[sign] \in {"+", "-"}
        first  == IF signed THEN sign + 1 ELSE sign
        last   == DigitsEnd(str, first)
        mag    == DigitsVal(str, first, last, 0)
    IN  IF last = first
        THEN [val |-> 0, endp |-> 1]
        ELSE [val  |-> IF signed /\ str[sign] = "-" THEN 0 - mag ELSE mag,
              endp |-> last]

\* printf("%d") of a non-negative integer.
RECURSIVE FormatInt(_)
FormatInt(n) ==
    LET d == <<"0", "1", "2", "3", "4", "5", "6", "7", "8", "9">>
    IN  IF n < 10 THEN <<d[n + 1]>>
        ELSE FormatInt(n \div 10) \o <<d[(n % 10) + 1]>>

(***************************************************************************)
(* Inputs: the command line and the lines the files may hold.  A line is   *)
(* the result of the strtok_r() calls of nc_parse_row(): the number of     *)
(* space-separated fields, the two endpoint tokens and the state token;    *)
(* nl says whether fgets() found the newline within its buffer.            *)
(***************************************************************************)
FileArgs == << <<"data", "hostA.txt">>, <<"hostB.txt">>,
               <<"tmp", "snap", "hostC.txt">>, <<"hostD.txt">>,
               <<"data", "hostE.txt">> >>

IpA == <<"1", "0", ".", "0", ".", "0", ".", "1">>
IpB == <<"1", "0", ".", "0", ".", "0", ".", "2">>
Loopback == <<"1", "2", "7", ".", "0", ".", "0", ".", "1">>

TokA5000 == IpA \o <<".", "5", "0", "0", "0">>
TokB80 == IpB \o <<".", "8", "0">>
TokB5000 == IpB \o <<".", "5", "0", "0", "0">>
TokLo80 == Loopback \o <<".", "8", "0">>

Row(t1, t2, st) ==
    [nfields |-> 7, ipport1 |-> t1, ipport2 |-> t2, state |-> st, nl |-> TRUE]

BlankLine ==
    [nfields |-> 0, ipport1 |-> <<>>, ipport2 |-> <<>>, state |-> "",
     nl |-> TRUE]

GoodLines ==
    { Row(TokA5000, TokB80, "ESTABLISHED"),
      Row(TokB80, TokA5000, "TIME_WAIT"),
      Row(TokB5000, TokB80, "CLOSE_WAIT"),
      Row(TokLo80, TokB80, "ESTABLISHED"),
      Row(TokB80, TokLo80, "LISTEN") }

BadLines ==
    { Row(<<"a", "b", "c">>, TokB80, "ESTABLISHED"),
      Row(TokA5000, IpB \o <<".", "8", "0", "x">>, "ESTABLISHED"),
      Row(TokA5000, IpB \o <<".", "7", "0", "0", "0", "0">>, "ESTABLISHED"),
      Row(TokA5000, TokB80, "BOGUS"),
      [Row(TokA5000, TokB80, "") EXCEPT !.nfields = 5],
      [Row(TokA5000, TokB80, "ESTABLISHED") EXCEPT !.nl = FALSE] }

Lines == GoodLines \cup BadLines \cup {BlankLine}

TcpStates ==
    {"CLOSED", "IDLE", "BOUND", "LISTEN", "SYN_SENT", "SYN_RCVD",
     "ESTABLISHED", "CLOSE_WAIT", "FIN_WAIT_1", "CLOSING", "LAST_ACK",
     "FIN_WAIT_2", "TIME_WAIT"}

(***************************************************************************)
(* nc_parse_ipport(): split "address.port" at the last dot.                *)
(***************************************************************************)
nc_parse_ipport(str) ==
    LET dot  == strrchr(str, ".")
        rest == SubSeq(str, dot + 1, Len(str))
        num  == strtol(rest)
    IN  IF dot = 0
        THEN [rc |-> -1, ip |-> <<>>, port |-> 0]
        ELSE IF num.val < 0 \/ num.val > UINT16_MAX \/ num.endp # Len(rest) + 1
        THEN [rc |-> -1, ip |-> strlcpy(SubSeq(str, 1, dot - 1), IPV4_STRBUFSZ),
              port |-> 0]
        ELSE [rc |-> 0, ip |-> strlcpy(SubSeq(str, 1, dot - 1), IPV4_STRBUFSZ),
              port |-> num.val % (UINT16_MAX + 1)]

\* nc_ipport_tostr(): snprintf(buf, bufsz, "%s:%d", ip, port).
nc_ipport_tostr(bufsz, ip, port) ==
    strlcpy(ip \o <<":">> \o FormatInt(port), bufsz)

(***************************************************************************)
(* The two AVL trees.  A tree is the set of its nodes; the comparator      *)
(* decides which node a lookup finds and the order of a walk.              *)
(***************************************************************************)
Sign(n) == IF n < 0 THEN -1 ELSE IF n = 0 THEN 0 ELSE 1

nc_conn_compare(ncc1, ncc2) ==
    LET c1 == strcmp(ncc1.ncc_ip1, ncc2.ncc_ip1)
        c2 == IF c1 = 0 THEN ncc1.ncc_port1 - ncc2.ncc_port1 ELSE c1
        c3 == IF c2 = 0 THEN strcmp(ncc1.ncc_ip2, ncc2.ncc_ip2) ELSE c2
        c4 == IF c3 = 0 THEN ncc1.ncc_port2 - ncc2.ncc_port2 ELSE c3
    IN  Sign(c4)

nc_source_compare(ncs1, ncs2) == Sign(strcmp(ncs1.ncs_ip, ncs2.ncs_ip))

\* The comparator avl_create() bound to the tree a node belongs to.
avl_compar(n1, n2) ==
    IF "ncs_ip" \in DOMAIN n1
    THEN nc_source_compare(n1, n2)
    ELSE nc_conn_compare(n1, n2)

avl_find(tree, node) ==
    IF \E n \in tree : avl_compar(n, node) = 0
    THEN CHOOSE n \in tree : avl_compar(n, node) = 0
    ELSE NULL

avl_insert(tree, node) == tree \cup {node}

\* avl_first() / AVL_NEXT() over nc_conns: the nodes in comparator order.
RECURSIVE avl_walk(_)
avl_walk(tree) ==
    IF tree = {} THEN <<>>
    ELSE LET first == CHOOSE n \in tree :
                          \A m \in tree : nc_conn_compare(n, m) <= 0
         IN  <<first>> \o avl_walk(tree \ {first})

(***************************************************************************)
(* nc_parse_row(): fold one data line into the two trees.                  *)
(***************************************************************************)
\* The loopback test of nc_parse_row().
IsLocalhostLocalOnly(ncc) == strcmp(ncc.ncc_ip1, Loopback) = 0

IsLocalhost(ncc) ==
    strcmp(ncc.ncc_ip1, Loopback) = 0 \/ strcmp(ncc.ncc_ip2, Loopback) = 0

\* "Make sure that we have a source record based on the local IP address."
\* The result is the tree and the node the row refers to.
RegisterSourceLastLabel(sources, ip, source) ==
    LET ncs  == [ncs_ip |-> strlcpy(ip, IPV4_STRBUFSZ), ncs_label |-> source]
        oncs == avl_find(sources, ncs)
    IN  [tree |-> avl_insert(sources \ {oncs}, ncs), ncs |-> ncs]

RegisterSourceNoInsert(sources, ip, source) ==
    LET ncs  == [ncs_ip |-> strlcpy(ip, IPV4_STRBUFSZ), ncs_label |-> ""]
        oncs == avl_find(sources, ncs)
    IN  IF oncs = NULL
        THEN [tree |-> sources, ncs |-> [ncs EXCEPT !.ncs_label = source]]
        ELSE [tree |-> sources, ncs |-> oncs]

RegisterSource(sources, ip, source) ==
    LET ncs  == [ncs_ip |-> strlcpy(ip, IPV4_STRBUFSZ), ncs_label |-> ""]
        oncs == avl_find(sources, ncs)
    IN  IF oncs = NULL
        THEN LET new == [ncs EXCEPT !.ncs_label = source]
             IN  [tree |-> avl_insert(sources, new), ncs |-> new]
        ELSE [tree |-> sources, ncs |-> oncs]

\* "Sort the two (IP, port) tuples within the ncconn_t".
SortEndpointsNoTiebreak(ncc) ==
    IF strcmp(ncc.ncc_ip1, ncc.ncc_ip2) > 0
    THEN [ncc EXCEPT !.ncc_port1 = ncc.ncc_port2,
                     !.ncc_port2 = ncc.ncc_port1,
                     !.ncc_ip1 = strlcpy(ncc.ncc_ip2, IPV4_STRBUFSZ),
                     !.ncc_ip2 = strlcpy(ncc.ncc_ip1, IPV4_STRBUFSZ)]
    ELSE ncc

SortEndpoints(ncc) ==
    LET cmp == strcmp(ncc.ncc_ip1, ncc.ncc_ip2)
    IN  IF cmp > 0 \/ (cmp = 0 /\ ncc.ncc_port1 > ncc.ncc_port2)
        THEN [ncc EXCEPT !.ncc_port1 = ncc.ncc_port2,
                         !.ncc_port2 = ncc.ncc_port1,
                         !.ncc_ip1 = strlcpy(ncc.ncc_ip2, IPV4_STRBUFSZ),
                         !.ncc_ip2 = strlcpy(ncc.ncc_ip1, IPV4_STRBUFSZ)]
        ELSE ncc

\* "Update the record to refer to this source.  We only actually keep two
\* sources."  ncc_sources[0..1] of the C code are ncc_sources[1..2] here.
AddSourceOncePerSource(ncc, ncs) ==
    IF ncc.ncc_nsources >= 1 /\ ncc.ncc_sources[1] = ncs
    THEN ncc
    ELSE IF ncc.ncc_nsources < 2
    THEN [ncc EXCEPT !.ncc_sources[ncc.ncc_nsources + 1] = ncs,
                     !.ncc_nsources = ncc.ncc_nsources + 1]
    ELSE IF ncc.ncc_nsources < UINT8_MAX
    THEN [ncc EXCEPT !.ncc_nsources = ncc.ncc_nsources + 1]
    ELSE ncc

AddSourceWraps(ncc, ncs) ==
    IF ncc.ncc_nsources < 2
    THEN [ncc EXCEPT !.ncc_sources[ncc.ncc_nsources + 1] = ncs,
                     !.ncc_nsources = ncc.ncc_nsources + 1]
    ELSE [ncc EXCEPT !.ncc_nsources = (ncc.ncc_nsources + 1) % (UINT8_MAX + 1)]

AddSourceKeepsLatest(ncc, ncs) ==
    IF ncc.ncc_nsources < 2
    THEN [ncc EXCEPT !.ncc_sources[ncc.ncc_nsources + 1] = ncs,
                     !.ncc_nsources = ncc.ncc_nsources + 1]
    ELSE IF ncc.ncc_nsources < UINT8_MAX
    THEN [ncc EXCEPT !.ncc_sources[2] = ncs,
                     !.ncc_nsources = ncc.ncc_nsources + 1]
    ELSE ncc

AddSourceOffByOne(ncc, ncs) ==
    IF ncc.ncc_nsources < 1
    THEN [ncc EXCEPT !.ncc_sources[ncc.ncc_nsources + 1] = ncs,
                     !.ncc_nsources = ncc.ncc_nsources + 1]
    ELSE IF ncc.ncc_nsources < UINT8_MAX
    THEN [ncc EXCEPT !.ncc_nsources = ncc.ncc_nsources + 1]
    ELSE ncc

AddSourceCapped(ncc, ncs) ==
    IF ncc.ncc_nsources < 2
    THEN [ncc EXCEPT !.ncc_sources[ncc.ncc_nsources + 1] = ncs,
                     !.ncc_nsources = ncc.ncc_nsources + 1]
    ELSE ncc

AddSource(ncc, ncs) ==
    IF ncc.ncc_nsources < 2
    THEN [ncc EXCEPT !.ncc_sources[ncc.ncc_nsources + 1] = ncs,
                     !.ncc_nsources = ncc.ncc_nsources + 1]
    ELSE IF ncc.ncc_nsources < UINT8_MAX
    THEN [ncc EXCEPT !.ncc_nsources = ncc.ncc_nsources + 1]
    ELSE ncc

\* The part of nc_parse_row() after both endpoints have parsed.
RecordRowSortFirst(ncp, source, ncc0, state) ==
    IF IsLocalhost(ncc0)
    THEN [rc |-> 0, ncp |-> [ncp EXCEPT !.nc_nlocalhost = @ + 1]]
    ELSE LET ncc  == SortEndpoints(ncc0)
             reg  == RegisterSource(ncp.nc_sources, ncc.ncc_ip1, source)
             oncc == avl_find(ncp.nc_conns, ncc)
             cur  == IF oncc = NULL THEN [ncc EXCEPT !.ncc_state = state]
                     ELSE oncc
             upd  == AddSource(cur, reg.ncs)
         IN  [rc  |-> 0,
              ncp |-> [ncp EXCEPT !.nc_sources = reg.tree,
                                  !.nc_conns = avl_insert(@ \ {cur}, upd)]]

RecordRowRegisterFirst(ncp, source, ncc0, state) ==
    LET reg == RegisterSource(ncp.nc_sources, ncc0.ncc_ip1, source)
    IN  IF IsLocalhost(ncc0)
        THEN [rc |-> 0, ncp |-> [ncp EXCEPT !.nc_nlocalhost = @ + 1,
                                            !.nc_sources = reg.tree]]
        ELSE LET ncc  == SortEndpoints(ncc0)
                 oncc == avl_find(ncp.nc_conns, ncc)
                 cur  == IF oncc = NULL THEN [ncc EXCEPT !.ncc_state = state]
                         ELSE oncc
                 upd  == AddSource(cur, reg.ncs)
             IN  [rc  |-> 0,
                  ncp |-> [ncp EXCEPT !.nc_sources = reg.tree,
                                      !.nc_conns = avl_insert(@ \ {cur}, upd)]]

RecordRowLastState(ncp, source, ncc0, state) ==
    IF IsLocalhost(ncc0)
    THEN [rc |-> 0, ncp |-> [ncp EXCEPT !.nc_nlocalhost = @ + 1]]
    ELSE LET reg  == RegisterSource(ncp.nc_sources, ncc0.ncc_ip1, source)
             ncc  == SortEndpoints(ncc0)
             oncc == avl_find(ncp.nc_conns, ncc)
             cur  == IF oncc = NULL THEN ncc ELSE oncc
             upd  == AddSource([cur EXCEPT !.ncc_state = state], reg.ncs)
         IN  [rc  |-> 0,
              ncp |-> [ncp EXCEPT !.nc_sources = reg.tree,
                                  !.nc_conns = avl_insert(@ \ {cur}, upd)]]

RecordRow(ncp, source, ncc0, state) ==
    IF IsLocalhost(ncc0)
    THEN [rc |-> 0, ncp |-> [ncp EXCEPT !.nc_nlocalhost = @ + 1]]
    ELSE LET reg  == RegisterSource(ncp.nc_sources, ncc0.ncc_ip1, source)
             ncc  == SortEndpoints(ncc0)
             oncc == avl_find(ncp.nc_conns, ncc)
             cur  == IF oncc = NULL THEN [ncc EXCEPT !.ncc_state = state]
                     ELSE oncc
             upd  == AddSource(cur, reg.ncs)
         IN  [rc  |-> 0,
              ncp |-> [ncp EXCEPT !.nc_sources = reg.tree,
                                  !.nc_conns = avl_insert(@ \ {cur}, upd)]]

nc_parse_row(ncp, source, line) ==
    IF line.nfields < 7
    THEN [rc |-> -1, ncp |-> ncp]
    ELSE IF line.state \notin TcpStates
    THEN [rc |-> -1, ncp |-> ncp]
    ELSE LET e1 == nc_parse_ipport(line.ipport1)
             e2 == nc_parse_ipport(line.ipport2)
         IN  IF e1.rc # 0 \/ e2.rc # 0
             THEN [rc |-> -1, ncp |-> ncp]
             ELSE RecordRow(ncp, source,
                            [ncc_ip1 |-> e1.ip, ncc_port1 |-> e1.port,
                             ncc_ip2 |-> e2.ip, ncc_port2 |-> e2.port,
                             ncc_state |-> "", ncc_nsources |-> 0,
                             ncc_sources |-> <<NULL, NULL>>],
                            line.state)

(***************************************************************************)
(* nc_read_file(): the label of a file and the body of its line loop.      *)
(***************************************************************************)
\* source = strrchr(filename, '/') + 1, or filename when it has no '/'.
SourceLabel(filename) == filename[Len(filename)]

\* One iteration of the data-line loop: blank lines are skipped, a line
\* without its newline or one nc_parse_row() rejects ends the run (errx).
ReadLineIgnoringErrors(ncp, source, line) ==
    IF line = BlankLine THEN [fatal |-> FALSE, rc |-> 0, ncp |-> ncp]
    ELSE IF ~line.nl THEN [fatal |-> FALSE, rc |-> -1, ncp |-> ncp]
    ELSE [fatal |-> FALSE] @@ nc_parse_row(ncp, source, line)

ReadLine(ncp, source, line) ==
    IF line = BlankLine THEN [fatal |-> FALSE, rc |-> 0, ncp |-> ncp]
    ELSE IF ~line.nl THEN [fatal |-> TRUE, rc |-> -1, ncp |-> ncp]
    ELSE IF nc_parse_row(ncp, source, line).rc # 0
    THEN [fatal |-> TRUE, rc |-> -1, ncp |-> ncp]
    ELSE [fatal |-> FALSE] @@ nc_parse_row(ncp, source, line)

(***************************************************************************)
(* nc_report(): one pass over the connection tree.                         *)
(***************************************************************************)
\* ncc_sources[i]->ncs_label.
Label(ncs) == IF ncs = NULL THEN NULL ELSE ncs.ncs_label

\* nc_conn_dump(): the endpoints, then at most the two retained sources.
nc_conn_dump(ncc) ==
    [buf1 |-> nc_ipport_tostr(IPV4PORT_BUFSZ, ncc.ncc_ip1, ncc.ncc_port1),
     buf2 |-> nc_ipport_tostr(IPV4PORT_BUFSZ, ncc.ncc_ip2, ncc.ncc_port2),
     sources |-> [k \in 1..Min(ncc.ncc_nsources, 2) |->
                     Label(ncc.ncc_sources[k])]]

\* The locals of nc_report() before its loop, and what it has printed.
ReportInit ==
    [ntimewait |-> 0, nerror |-> 0, nsymmetric |-> 0, nexternal |-> 0,
     nasymmetric |-> 0, ncc_error |-> NULL, detail |-> <<>>,
     stderr |-> <<>>, summary |-> NULL, aborted |-> FALSE]

\* A connection with one source: external unless both of its addresses
\* are keys of nc_sources.
IsExternalNeither(ncp, ncc) ==
    /\ avl_find(ncp.nc_sources,
                [ncs_ip |-> strlcpy(ncc.ncc_ip1, IPV4_STRBUFSZ),
                 ncs_label |-> ""]) = NULL
    /\ avl_find(ncp.nc_sources,
                [ncs_ip |-> strlcpy(ncc.ncc_ip2, IPV4_STRBUFSZ),
                 ncs_label |-> ""]) = NULL

IsExternalFirstOnly(ncp, ncc) ==
    avl_find(ncp.nc_sources,
             [ncs_ip |-> strlcpy(ncc.ncc_ip1, IPV4_STRBUFSZ),
              ncs_label |-> ""]) = NULL

IsExternal(ncp, ncc) ==
    LET ext1 == avl_find(ncp.nc_sources,
                         [ncs_ip |-> strlcpy(ncc.ncc_ip1, IPV4_STRBUFSZ),
                          ncs_label |-> ""]) = NULL
    IN  IF ~ext1
        THEN avl_find(ncp.nc_sources,
                      [ncs_ip |-> strlcpy(ncc.ncc_ip2, IPV4_STRBUFSZ),
                       ncs_label |-> ""]) = NULL
        ELSE ext1

\* The loop body below the TIME_WAIT test.
ReportCounted(ncp, r, ncc) ==
    IF ncc.ncc_nsources > 2
    THEN [r EXCEPT !.nerror = @ + 1, !.ncc_error = ncc,
                   !.stderr = IF ncp.nc_debug
                              THEN Append(@, nc_conn_dump(ncc)) ELSE @]
    ELSE IF ncc.ncc_nsources = 2
    THEN [r EXCEPT !.nsymmetric = @ + 1]
    ELSE IF ncc.ncc_nsources # 1
    THEN [r EXCEPT !.aborted = TRUE]
    ELSE IF IsExternal(ncp, ncc)
    THEN [r EXCEPT !.nexternal = @ + 1,
                   !.stderr = IF ncp.nc_debug
                              THEN Append(@, nc_conn_dump(ncc)) ELSE @]
    ELSE [r EXCEPT !.nasymmetric = @ + 1,
                   !.detail = Append(@,
                       [buf1 |-> nc_ipport_tostr(IPV4PORT_BUFSZ,
                                     ncc.ncc_ip1, ncc.ncc_port1),
                        buf2 |-> nc_ipport_tostr(IPV4PORT_BUFSZ,
                                     ncc.ncc_ip2, ncc.ncc_port2),
                        label |-> Label(ncc.ncc_sources[1])])]

\* One iteration of the loop of nc_report().
ReportConnNoContinue(ncp, r, ncc) ==
    IF ncc.ncc_state = "TIME_WAIT"
    THEN ReportCounted(ncp, [r EXCEPT !.ntimewait = @ + 1], ncc)
    ELSE ReportCounted(ncp, r, ncc)

ReportConnOverflowFirst(ncp, r, ncc) ==
    IF ncc.ncc_nsources > 2
    THEN ReportCounted(ncp, r, ncc)
    ELSE IF ncc.ncc_state = "TIME_WAIT"
    THEN [r EXCEPT !.ntimewait = @ + 1]
    ELSE ReportCounted(ncp, r, ncc)

ReportConn(ncp, r, ncc) ==
    IF ncc.ncc_state = "TIME_WAIT"
    THEN [r EXCEPT !.ntimewait = @ + 1]
    ELSE ReportCounted(ncp, r, ncc)

\* The loop: a failed assert() ends the process where it stands.
RECURSIVE ReportLoop(_, _, _)
ReportLoop(ncp, r, conns) ==
    IF conns = <<>> \/ r.aborted THEN r
    ELSE ReportLoop(ncp, ReportConn(ncp, r, Head(conns)), Tail(conns))

nc_report(ncp) ==
    LET r == ReportLoop(ncp, ReportInit, avl_walk(ncp.nc_conns))
    IN  IF r.aborted THEN r
        ELSE [r EXCEPT
                !.stderr = IF r.nerror # 0
                           THEN Append(@, nc_conn_dump(r.ncc_error)) ELSE @,
                !.summary = [nlocalhost |-> ncp.nc_nlocalhost,
                             ntimewait |-> r.ntimewait,
                             nsymmetric |-> r.nsymmetric,
                             nexternal |-> r.nexternal,
                             nasymmetric |-> r.nasymmetric]]

(***************************************************************************)
(* The run: main().                                                        *)
(***************************************************************************)
VARIABLES
    pc,       \* where main() stands
    argc,     \* number of file arguments (argc - optind)
    i,        \* index of the file argument being read, from 1
    netcmp,   \* the netcmp_t of main()
    report,   \* locals and output of nc_report()
    hist,     \* history: the rows read so far, each with its file index
              \* and parsed endpoints
    nfatal,   \* history: fatal errors met (errx/err calls)
    nobs,     \* history: rows of one tuple given to nc_parse_row()
    str,      \* the token given to nc_parse_ipport() on its own
    parsed    \* what nc_parse_ipport() made of str, NULL before the call

vars == <<pc, argc, i, netcmp, report, hist, nfatal, nobs, str, parsed>>

\* What a run of main() leaves alone.
calls == <<nobs, str, parsed>>

\* nc_init(): bzero() and two empty trees.
nc_init ==
    [nc_debug |-> FALSE, nc_nlocalhost |-> 0, nc_conns |-> {},
     nc_sources |-> {}]

\* nc_parse_options() sets nc_debug from -d; nothing reads the flag before
\* nc_report(), so the choice is drawn there.
Init ==
    /\ pc = "start"
    /\ argc \in 0..MaxFiles
    /\ i = 1
    /\ netcmp = nc_init
    /\ report = ReportInit
    /\ hist = <<>>
    /\ nfatal = 0
    /\ nobs = 0
    /\ str = <<>>
    /\ parsed = NULL

\* err()/errx()/usage(): the process ends, and with it the netcmp_t on
\* main()'s stack; only the message and the exit status remain.
Exit(message) ==
    /\ pc' = message
    /\ netcmp' = nc_init
    /\ hist' = <<>>

\* nc_read_file() up to its data-line loop: fopen() and the four header
\* lines, any of which may end the run.
OpenOutcomes == {"ok", "fopen", "reading from stream", "expected header"}

\* The messages of a run that ended in EXIT_FAILURE.
Failures ==
    {"fopen", "reading from stream", "expected header", "line too long",
     "failed to process line"}

OpenFile(outcome) ==
    IF outcome = "ok"
    THEN pc' = "reading" /\ UNCHANGED <<netcmp, hist, nfatal>>
    ELSE Exit(outcome) /\ nfatal' = nfatal + 1

\* "need two filenames": usage() exits.  Otherwise main() enters its loop
\* and calls nc_read_file() on the first argument.
Start(outcome) ==
    /\ pc = "start"
    /\ IF argc < 2
       THEN Exit("usage") /\ nfatal' = nfatal
       ELSE OpenFile(outcome)
    /\ UNCHANGED <<argc, i, report, calls>>

\* History entry for a row nc_parse_row accepted: the file, the line and
\* the two endpoints as parsed.
HistRow(file, line) ==
    LET local  == nc_parse_ipport(line.ipport1)
        remote == nc_parse_ipport(line.ipport2)
    IN  [file |-> file, line |-> line,
         local |-> [ip |-> local.ip, port |-> local.port],
         remote |-> [ip |-> remote.ip, port |-> remote.port]]

\* fgets() returned a line.
NextLine(line) ==
    /\ pc = "reading"
    /\ Len(hist) < MaxLines
    /\ \E r \in {ReadLine(netcmp, SourceLabel(FileArgs[i]), line)} :
           /\ nfatal' = IF r.rc # 0 THEN nfatal + 1 ELSE nfatal
           /\ IF r.fatal
              THEN Exit(IF line.nl THEN "failed to process line"
                        ELSE "line too long")
              ELSE /\ pc' = "reading"
                   /\ netcmp' = r.ncp
                   /\ hist' = IF r.rc # 0 \/ line = BlankLine THEN hist
                              ELSE Append(hist, HistRow(i, line))
    /\ UNCHANGED <<argc, i, report, calls>>

\* fgets() returned NULL: fclose(), return (0); main() steps to the next
\* argument and calls nc_read_file() on it, or leaves its loop.
EndOfFile(outcome) ==
    /\ pc = "reading"
    /\ i' = i + 1
    /\ IF i' <= argc
       THEN OpenFile(outcome)
       ELSE pc' = "main" /\ UNCHANGED <<netcmp, hist, nfatal>>
    /\ UNCHANGED <<argc, report, calls>>

\* Every file has been read: nc_report(), return (0).
Report(debug) ==
    /\ pc = "main"
    /\ netcmp' = [netcmp EXCEPT !.nc_debug = debug]
    /\ report' = nc_report(netcmp')
    /\ pc' = IF report'.aborted THEN "aborted" ELSE "done"
    /\ UNCHANGED <<argc, i, hist, nfatal, calls>>

Next ==
    \/ \E outcome \in OpenOutcomes : Start(outcome)
    \/ \E line \in Lines : NextLine(line)
    \/ \E outcome \in OpenOutcomes : EndOfFile(outcome)
    \/ \E debug \in BOOLEAN : Report(debug)

Spec == Init /\ [][Next]_vars

(***************************************************************************)
(* nc_parse_ipport() on its own: one call on a token.  A token is what     *)
(* strtok_r() cuts out of a line at spaces, so it is any non-empty run of  *)
(* bytes other than the space; the tokens here are an address, a dot and   *)
(* a port text, and the port texts alone (which hold no dot).              *)
(***************************************************************************)
MaxPortLen == 3

PortChars == {"0", "8", "+", "-", "x", "\t"}

RECURSIVE PortTexts(_)
PortTexts(n) ==
    IF n = 0 THEN {<<>>}
    ELSE LET shorter == PortTexts(n - 1)
         IN  shorter \cup {Append(p, c) : p \in shorter, c \in PortChars}

Ports ==
    PortTexts(MaxPortLen)
        \cup {<<"6", "5", "5", "3", "5">>, <<"6", "5", "5", "3", "6">>,
              <<"9", "9", "9", "9", "9", "9", "9", "9", "9", "9",
                "9", "9", "9", "9", "9", "9", "9", "9", "9", "9">>}

\* Addresses of 0, 8, 15, 16 and 19 bytes.
Addresses ==
    {<<>>, IpA,
     <<"1", "2", "3", ".", "1", "2", "3", ".", "1", "2", "3", ".",
       "1", "2", "3">>,
     <<"1", "2", "3", "4", ".", "1", "2", "3", ".", "1", "2", "3", ".",
       "1", "2", "3">>,
     <<"1", "2", "3", "4", ".", "1", "2", "3", "4", ".", "1", "2", "3", "4",
       ".", "1", "2", "3", "4">>}

Tokens ==
    {a \o <<".">> \o p : a \in Addresses, p \in Ports}
        \cup (Ports \ {<<>>})

ParseInit ==
    /\ pc = "nc_parse_ipport"
    /\ argc = 0
    /\ i = 1
    /\ netcmp = nc_init
    /\ report = ReportInit
    /\ hist = <<>>
    /\ nfatal = 0
    /\ nobs = 0
    /\ str \in Tokens
    /\ parsed = NULL

ParseToken ==
    /\ pc = "nc_parse_ipport"
    /\ parsed = NULL
    /\ parsed' = nc_parse_ipport(str)
    /\ UNCHANGED <<pc, argc, i, netcmp, report, hist, nfatal, nobs, str>>

ParseNext == ParseToken

SpecParse == ParseInit /\ [][ParseNext]_vars


(***************************************************************************)
(* Vocabulary of the properties: what the rows read so far say, stated     *)
(* from the history and not from the trees.                                *)
(***************************************************************************)
\* The endpoints of a row of the history, as nc_parse_ipport read them.
RowLocal(h) == h.local

RowRemote(h) == h.remote

\* The unordered endpoint pair a row reports.
RowPair(h) == {h.local, h.remote}

RowIsLoopback(h) == h.local.ip = Loopback \/ h.remote.ip = Loopback

\* Indices of the rows that are observations of a connection.
Observations == {k \in 1..Len(hist) : ~RowIsLoopback(hist[k])}

ObservationsOf(pair) == {k \in Observations : RowPair(hist[k]) = pair}

ConnPair(c) ==
    {[ip |-> c.ncc_ip1, port |-> c.ncc_port1],
     [ip |-> c.ncc_ip2, port |-> c.ncc_port2]}

EntriesFor(pair) == {c \in netcmp.nc_conns : ConnPair(c) = pair}

InSourceRegistry(ip) == \E ncs \in netcmp.nc_sources : ncs.ncs_ip = ip

FiveCounts(r) ==
    r.ntimewait + r.nerror + r.nsymmetric + r.nexternal + r.nasymmetric

\* The counters one pass of the report loop raises for connection c.
Outcomes(c) ==
    LET r == ReportConn(netcmp, ReportInit, c)
    IN  (IF r.ntimewait > 0 THEN {"pruned"} ELSE {})
        \cup (IF r.nerror > 0 THEN {"overflow"} ELSE {})
        \cup (IF r.nsymmetric > 0 THEN {"symmetric"} ELSE {})
        \cup (IF r.nexternal > 0 THEN {"external"} ELSE {})
        \cup (IF r.nasymmetric > 0 THEN {"asymmetric"} ELSE {})

(***************************************************************************)
(* C1: rows reporting the same two endpoints, whichever is local, resolve  *)
(* to one connection entry; the registry never holds two entries for one   *)
(* unordered endpoint pair, and every entry has (ip1, port1) <= (ip2,      *)
(* port2), addresses compared as strings and then ports as numbers.        *)
(***************************************************************************)
C1_CanonicalKey ==
    /\ \A c \in netcmp.nc_conns :
          \/ strcmp(c.ncc_ip1, c.ncc_ip2) < 0
          \/ strcmp(c.ncc_ip1, c.ncc_ip2) = 0 /\ c.ncc_port1 <= c.ncc_port2
    /\ \A c, d \in netcmp.nc_conns : ConnPair(c) = ConnPair(d) => c = d
    /\ \A k \in Observations :
          Cardinality(EntriesFor(RowPair(hist[k]))) = 1

\* Two rows from different files report one connection from its two sides,
\* and a third entry needed the port tiebreak.
C1_Witness ==
    /\ \E k, j \in Observations :
          /\ hist[k].file # hist[j].file
          /\ RowLocal(hist[k]) = RowRemote(hist[j])
          /\ RowRemote(hist[k]) = RowLocal(hist[j])
          /\ \E c \in EntriesFor(RowPair(hist[k])) : c.ncc_nsources = 2
    /\ \E c \in netcmp.nc_conns : c.ncc_ip1 = c.ncc_ip2

(***************************************************************************)
(* C2: the report loop raises exactly one of its five counters for every   *)
(* connection the registry can hold, so after the report the five          *)
(* counters sum to the number of connections.                              *)
(***************************************************************************)
C2_ExactlyOneOutcome ==
    /\ \A c \in netcmp.nc_conns :
          LET r == ReportConn(netcmp, ReportInit, c)
          IN  ~r.aborted /\ FiveCounts(r) = 1
    /\ pc = "done" => FiveCounts(report) = Cardinality(netcmp.nc_conns)

C2_Witness ==
    /\ pc = "done"
    /\ Cardinality(netcmp.nc_conns) = 2
    /\ report.ntimewait = 1
    /\ report.nasymmetric = 1

(***************************************************************************)
(* C3, as the code has it: a connection with one observation and a state   *)
(* other than TIME_WAIT is external when at least one of its two addresses *)
(* is missing from the source registry, and asymmetric when both are in    *)
(* it.                                                                     *)
(***************************************************************************)
C3_ExternalUnlessBothKnown ==
    pc = "done" =>
        \A c \in netcmp.nc_conns :
            c.ncc_nsources = 1 /\ c.ncc_state # "TIME_WAIT" =>
                IF InSourceRegistry(c.ncc_ip1) /\ InSourceRegistry(c.ncc_ip2)
                THEN Outcomes(c) = {"asymmetric"} /\ report.nasymmetric >= 1
                ELSE Outcomes(c) = {"external"} /\ report.nexternal >= 1

\* One address known, the other not: counted external.
C3_Witness ==
    /\ pc = "done"
    /\ report.nexternal = 1
    /\ \E c \in netcmp.nc_conns :
          /\ c.ncc_nsources = 1
          /\ c.ncc_state # "TIME_WAIT"
          /\ InSourceRegistry(c.ncc_ip1)
          /\ ~InSourceRegistry(c.ncc_ip2)

\* C3 as stated: external when neither address is known, asymmetric when
\* at least one is.
C3_AsStated ==
    pc = "done" =>
        \A c \in netcmp.nc_conns :
            c.ncc_nsources = 1 /\ c.ncc_state # "TIME_WAIT" =>
                IF InSourceRegistry(c.ncc_ip1) \/ InSourceRegistry(c.ncc_ip2)
                THEN Outcomes(c) = {"asymmetric"}
                ELSE Outcomes(c) = {"external"}

(***************************************************************************)
(* C4, as the code has it: after a run that read every file, the five      *)
(* counts sum to the number of connections, so together with the           *)
(* loopback skips they never exceed the number of data rows read, and      *)
(* reach it exactly when no connection was observed twice.                 *)
(***************************************************************************)
C4_CountsBoundedByRows ==
    pc = "done" =>
        /\ netcmp.nc_nlocalhost =
               Cardinality({k \in 1..Len(hist) : RowIsLoopback(hist[k])})
        /\ FiveCounts(report) + netcmp.nc_nlocalhost <= Len(hist)
        /\ FiveCounts(report) + netcmp.nc_nlocalhost = Len(hist)
             <=> \A k, j \in Observations :
                    RowPair(hist[k]) = RowPair(hist[j]) => k = j

\* A run with a loopback row and a connection seen from both sides.
C4_Witness ==
    /\ pc = "done"
    /\ Len(hist) = 3
    /\ netcmp.nc_nlocalhost = 1
    /\ report.nsymmetric = 1
    /\ FiveCounts(report) = 1

\* C4 as stated: counts plus loopback skips equal the rows read.
C4_AsStated ==
    pc = "done" => FiveCounts(report) + netcmp.nc_nlocalhost = Len(hist)

(***************************************************************************)
(* More vocabulary: the file whose row first registered an address, and    *)
(* the detail lines the report printed for a connection.                   *)
(***************************************************************************)
FileLabel(f) == SourceLabel(FileArgs[f])

\* Rows (loopback or not) reporting the pair.
RowsOf(pair) == {k \in 1..Len(hist) : RowPair(hist[k]) = pair}

\* Observation rows whose local address is ip.
RegistrarsOf(ip) == {k \in Observations : RowLocal(hist[k]).ip = ip}

First(S) == CHOOSE k \in S : \A m \in S : k <= m

DetailLabels(c) ==
    {report.detail[n].label : n \in
        {n \in 1..Len(report.detail) :
            /\ report.detail[n].buf1 =
                   nc_ipport_tostr(IPV4PORT_BUFSZ, c.ncc_ip1, c.ncc_port1)
            /\ report.detail[n].buf2 =
                   nc_ipport_tostr(IPV4PORT_BUFSZ, c.ncc_ip2, c.ncc_port2)}}

(***************************************************************************)
(* C5, as the code has it: a tuple without a loopback address, reported by *)
(* exactly one row, in file F, with a state other than TIME_WAIT, whose    *)
(* remote address is the local address of a non-loopback row of another    *)
(* file (read before or after F) ends as one connection with one source,   *)
(* classified asymmetric; its detail line names the file whose row first   *)
(* registered the tuple's local address, which is F unless an earlier      *)
(* file has a non-loopback row with that local address.                    *)
(***************************************************************************)
C5_LoneRowAsymmetric ==
    pc = "done" =>
        \A k \in Observations :
            LET l == hist[k]
            IN  /\ RowsOf(RowPair(l)) = {k}
                /\ l.line.state # "TIME_WAIT"
                /\ \E j \in Observations :
                      /\ hist[j].file # hist[k].file
                      /\ RowLocal(hist[j]).ip = RowRemote(l).ip
                => /\ Cardinality(EntriesFor(RowPair(l))) = 1
                   /\ \A c \in EntriesFor(RowPair(l)) :
                         /\ c.ncc_nsources = 1
                         /\ Outcomes(c) = {"asymmetric"}
                         /\ DetailLabels(c) =
                              {FileLabel(hist[First(RegistrarsOf(
                                   RowLocal(l).ip))].file)}
                         /\ RegistrarsOf(RowLocal(l).ip) = {k} =>
                              DetailLabels(c) = {FileLabel(hist[k].file)}

\* The remote address is registered by a file read after F, and the detail
\* line names F.
C5_Witness ==
    /\ pc = "done"
    /\ report.nasymmetric = 1
    /\ \E k, j \in Observations :
          /\ hist[k].file < hist[j].file
          /\ RowsOf(RowPair(hist[k])) = {k}
          /\ RowLocal(hist[j]).ip = RowRemote(hist[k]).ip
          /\ RowLocal(hist[k]).ip # RowRemote(hist[k]).ip
          /\ \E c \in EntriesFor(RowPair(hist[k])) :
                DetailLabels(c) = {FileLabel(hist[k].file)}

\* C5 as stated: any tuple reported by one row of F whose remote address
\* is a local address in another file is asymmetric, and the line names F.
C5_AsStated ==
    pc = "done" =>
        \A k \in Observations :
            LET l == hist[k]
            IN  /\ RowsOf(RowPair(l)) = {k}
                /\ \E j \in Observations :
                      /\ hist[j].file # hist[k].file
                      /\ RowLocal(hist[j]).ip = RowRemote(l).ip
                => /\ Cardinality(EntriesFor(RowPair(l))) = 1
                   /\ \A c \in EntriesFor(RowPair(l)) :
                         /\ c.ncc_nsources = 1
                         /\ Outcomes(c) = {"asymmetric"}
                         /\ DetailLabels(c) = {FileLabel(hist[k].file)}

(***************************************************************************)
(* C6: a tuple with exactly two observation rows, from the two sides or    *)
(* from one, in one file or two, has a count of 2 and, unless its state    *)
(* is TIME_WAIT, is counted symmetric.                                     *)
(***************************************************************************)
C6_TwoRowsSymmetric ==
    /\ \A k \in Observations :
          Cardinality(ObservationsOf(RowPair(hist[k]))) = 2 =>
              \A c \in EntriesFor(RowPair(hist[k])) :
                  /\ c.ncc_nsources = 2
                  /\ c.ncc_state # "TIME_WAIT" => Outcomes(c) = {"symmetric"}
    /\ pc = "done" =>
          report.nsymmetric =
              Cardinality({c \in netcmp.nc_conns :
                  /\ c.ncc_state # "TIME_WAIT"
                  /\ Cardinality(ObservationsOf(ConnPair(c))) = 2})

\* Two rows of one file for the same tuple.
C6_Witness ==
    /\ pc = "done"
    /\ report.nsymmetric = 1
    /\ \E k, j \in Observations :
          /\ k # j
          /\ hist[k].file = hist[j].file
          /\ hist[k].line = hist[j].line
          /\ Cardinality(ObservationsOf(RowPair(hist[k]))) = 2

(***************************************************************************)
(* C7, as the code has it: a tuple without a loopback address observed in  *)
(* three distinct files, whose first observation is not in TIME_WAIT,      *)
(* raises the overflow count by exactly 1 and no other counter, and its    *)
(* dump lists two sources: those of its first two observations.            *)
(***************************************************************************)
C7_ThreeFilesOverflowOnce ==
    /\ \A k \in Observations :
          LET obs == ObservationsOf(RowPair(hist[k]))
              k1  == First(obs)
              k2  == First(obs \ {k1})
          IN  /\ Cardinality({hist[m].file : m \in obs}) >= 3
              /\ hist[k1].line.state # "TIME_WAIT"
              => /\ Cardinality(EntriesFor(RowPair(hist[k]))) = 1
                 /\ \A c \in EntriesFor(RowPair(hist[k])) :
                       /\ Outcomes(c) = {"overflow"}
                       /\ ReportConn(netcmp, ReportInit, c).nerror = 1
                       /\ Len(nc_conn_dump(c).sources) = 2
                       /\ \A n \in 1..2 :
                             \E ncs \in netcmp.nc_sources :
                                /\ ncs.ncs_ip =
                                     RowLocal(hist[<<k1, k2>>[n]]).ip
                                /\ ncs.ncs_label = nc_conn_dump(c).sources[n]
    /\ pc = "done" =>
          /\ report.nerror =
                Cardinality({c \in netcmp.nc_conns :
                    c.ncc_state # "TIME_WAIT" /\ c.ncc_nsources > 2})
          /\ report.nerror > 0 =>
                /\ report.stderr # <<>>
                /\ \E c \in netcmp.nc_conns :
                      /\ Outcomes(c) = {"overflow"}
                      /\ report.stderr[Len(report.stderr)] = nc_conn_dump(c)

C7_Witness ==
    /\ pc = "done"
    /\ report.nerror = 1
    /\ FiveCounts(report) = 1
    /\ Cardinality({hist[m].file : m \in Observations}) = 3
    /\ Len(report.stderr[Len(report.stderr)].sources) = 2

\* C7 as stated: every tuple seen in three distinct files is an overflow.
C7_AsStated ==
    pc = "done" =>
        \A k \in Observations :
            Cardinality({hist[m].file :
                m \in ObservationsOf(RowPair(hist[k]))}) >= 3
            => /\ Cardinality(EntriesFor(RowPair(hist[k]))) = 1
               /\ \A c \in EntriesFor(RowPair(hist[k])) :
                     Outcomes(c) = {"overflow"}
               /\ report.nerror = 1

(***************************************************************************)
(* C8: a connection whose recorded state is TIME_WAIT is counted pruned    *)
(* and nothing else, whatever its count.                                   *)
(***************************************************************************)
C8_TimeWaitAlwaysPruned ==
    /\ \A c \in netcmp.nc_conns :
          c.ncc_state = "TIME_WAIT" => Outcomes(c) = {"pruned"}
    /\ pc = "done" =>
          report.ntimewait =
              Cardinality({c \in netcmp.nc_conns : c.ncc_state = "TIME_WAIT"})

C8_Witness ==
    /\ pc = "done"
    /\ report.ntimewait = 1
    /\ report.nerror = 0
    /\ \E c \in netcmp.nc_conns :
          c.ncc_state = "TIME_WAIT" /\ c.ncc_nsources > 2

(***************************************************************************)
(* C9: reading a row with 127.0.0.1 as either address adds one to the      *)
(* loopback counter and changes neither tree.                              *)
(***************************************************************************)
C9_LoopbackRowSkipped ==
    [][Len(hist') = Len(hist) + 1 /\ RowIsLoopback(hist'[Len(hist')]) =>
          /\ netcmp'.nc_nlocalhost = netcmp.nc_nlocalhost + 1
          /\ netcmp'.nc_conns = netcmp.nc_conns
          /\ netcmp'.nc_sources = netcmp.nc_sources]_vars

\* Loopback rows of both kinds after a connection was recorded.
C9_Witness ==
    /\ netcmp.nc_nlocalhost = 2
    /\ Cardinality(netcmp.nc_conns) = 1
    /\ Cardinality(netcmp.nc_sources) = 1
    /\ \E k \in 2..Len(hist) : RowLocal(hist[k]).ip = Loopback
    /\ \E k \in 2..Len(hist) :
          /\ RowRemote(hist[k]).ip = Loopback
          /\ ~InSourceRegistry(RowLocal(hist[k]).ip)

(***************************************************************************)
(* C10: a data line that fails to parse ends the run at once; the report   *)
(* is produced only after every file was read without error, and a run    *)
(* that failed has printed no detail line and no summary.                  *)
(***************************************************************************)
C10_NoReportAfterError ==
    /\ nfatal > 0 => pc \in Failures
    /\ pc \in Failures \cup {"usage"} => report = ReportInit
    /\ report # ReportInit => pc \in {"done", "aborted"} /\ i = argc + 1

\* A line of the second file failed to parse.
C10_Witness ==
    /\ pc = "failed to process line"
    /\ i = 2
    /\ nfatal = 1
    /\ report.summary = NULL
    /\ report.detail = <<>>

(***************************************************************************)
(* nc_parse_row() called over and over on rows of one tuple, reported from *)
(* either side and read from either of two files: the way ncc_nsources     *)
(* reaches UINT8_MAX.                                                      *)
(***************************************************************************)
MaxObs == 257

SameTupleRows ==
    {Row(TokA5000, TokB80, "ESTABLISHED"), Row(TokB80, TokA5000, "ESTABLISHED")}

SourcesInit ==
    /\ pc = "nc_parse_row"
    /\ argc = 2
    /\ i = 1
    /\ netcmp = nc_init
    /\ report = ReportInit
    /\ hist = <<>>
    /\ nfatal = 0
    /\ nobs = 0
    /\ str = <<>>
    /\ parsed = NULL

ObserveAgain(file, line) ==
    /\ pc = "nc_parse_row"
    /\ nobs < MaxObs
    /\ \E r \in {nc_parse_row(netcmp, SourceLabel(FileArgs[file]), line)} :
           /\ r.rc = 0
           /\ netcmp' = r.ncp
    /\ nobs' = nobs + 1
    /\ UNCHANGED <<pc, argc, i, report, hist, nfatal, str, parsed>>

SourcesNext ==
    \E file \in 1..2, line \in SameTupleRows : ObserveAgain(file, line)

SpecSources == SourcesInit /\ [][SourcesNext]_vars

(***************************************************************************)
(* The same rows read in another order.  hist is the input: the rows of    *)
(* two files as main() read them, netcmp the state they left main() in.    *)
(* The one action runs the program again on a permutation of the rows,     *)
(* each row keeping the label of its file, and reports.                    *)
(***************************************************************************)
MaxRows == 3

OrderLines ==
    { Row(TokA5000, TokB80, "ESTABLISHED"),
      Row(TokB80, TokA5000, "ESTABLISHED"),
      Row(TokB80, TokA5000, "TIME_WAIT"),
      Row(TokB5000, TokB80, "CLOSE_WAIT"),
      Row(TokLo80, TokB80, "ESTABLISHED") }

\* The rows of files 1 and 2, in reading order.
RECURSIVE RowSeqs(_)
RowSeqs(n) ==
    IF n = 0 THEN {<<>>}
    ELSE LET shorter == RowSeqs(n - 1)
         IN  shorter \cup
             {Append(x[1], HistRow(x[2], x[3])) :
                 x \in {y \in shorter \X (1..2) \X OrderLines :
                           y[1] = <<>> \/ y[1][Len(y[1])].file <= y[2]}}

\* nc_read_file() on each file in turn: nc_parse_row() on every row.
RECURSIVE ReadRows(_, _)
ReadRows(ncp, rows) ==
    IF rows = <<>> THEN ncp
    ELSE ReadRows(nc_parse_row(ncp, SourceLabel(FileArgs[Head(rows).file]),
                               Head(rows).line).ncp,
                  Tail(rows))

Reordered(rows, p) == [k \in 1..Len(rows) |-> rows[p[k]]]

OrderInit ==
    /\ pc = "main"
    /\ argc = 2
    /\ i = 3
    /\ hist \in RowSeqs(MaxRows)
    /\ netcmp = ReadRows(nc_init, hist)
    /\ report = ReportInit
    /\ nfatal = 0
    /\ nobs = 0
    /\ str = <<>>
    /\ parsed = NULL

RunReordered(p) ==
    /\ pc = "main"
    /\ netcmp' = ReadRows(nc_init, Reordered(hist, p))
    /\ report' = nc_report(netcmp')
    /\ pc' = IF report'.aborted THEN "aborted" ELSE "done"
    /\ UNCHANGED <<argc, i, hist, nfatal, calls>>

OrderNext == \E p \in Permutations(1..Len(hist)) : RunReordered(p)

SpecOrder == OrderInit /\ [][OrderNext]_vars

(***************************************************************************)
(* Vocabulary of the claims about tokens: the text before and after the    *)
(* rightmost dot, read off the token itself.                               *)
(***************************************************************************)
HasDot(t) == \E n \in 1..Len(t) : t[n] = "."

LastDot(t) ==
    CHOOSE n \in 1..Len(t) :
        t[n] = "." /\ \A m \in n + 1..Len(t) : t[m] # "."

AddressText(t) == SubSeq(t, 1, LastDot(t) - 1)

PortText(t) == SubSeq(t, LastDot(t) + 1, Len(t))

\* A non-negative integer written out: one digit or more and nothing else.
IsNumeral(p) == p # <<>> /\ \A n \in 1..Len(p) : IsDigit(p[n])

NumeralValue(p) == DigitsVal(p, 1, Len(p) + 1, 0)

(***************************************************************************)
(* C11, as stated: nc_parse_ipport() succeeds exactly on the tokens with   *)
(* a dot whose port text is a numeral (not empty, no sign, nothing after   *)
(* the digits) of value at most 65535, and then returns that value.        *)
(***************************************************************************)
C11_AsStated ==
    parsed # NULL =>
        /\ parsed.rc = 0 <=>
              /\ HasDot(str)
              /\ IsNumeral(PortText(str))
              /\ NumeralValue(PortText(str)) <= UINT16_MAX
        /\ parsed.rc = 0 => parsed.port = NumeralValue(PortText(str))

\* A token that ends in its dot is accepted, with port 0.
C11_Witness ==
    /\ str = IpA \o <<".">>
    /\ parsed # NULL
    /\ parsed.rc = 0
    /\ parsed.ip = IpA
    /\ parsed.port = 0

(***************************************************************************)
(* C12: the registry holds one Source per local address observed, with     *)
(* the label of the file whose row registered it first; a step of a run    *)
(* that goes on removes no Source and changes none.                        *)
(***************************************************************************)
SourcesKeepFirstLabel ==
    /\ \A k \in Observations : InSourceRegistry(RowLocal(hist[k]).ip)
    /\ \A ncs \in netcmp.nc_sources :
          /\ RegistrarsOf(ncs.ncs_ip) # {}
          /\ ncs.ncs_label =
                 FileLabel(hist[First(RegistrarsOf(ncs.ncs_ip))].file)
          /\ \A other \in netcmp.nc_sources :
                 other.ncs_ip = ncs.ncs_ip => other = ncs

C12_FirstLabelWins ==
    [][/\ SourcesKeepFirstLabel'
       /\ pc' \notin Failures \cup {"usage"} =>
             netcmp.nc_sources \subseteq netcmp'.nc_sources]_vars

\* The same local address in two files: the Source has the first label.
C12_Witness ==
    \E k, j \in Observations :
        /\ hist[k].file < hist[j].file
        /\ RowLocal(hist[k]).ip = RowLocal(hist[j]).ip
        /\ Cardinality(netcmp.nc_sources) = 1
        /\ \A ncs \in netcmp.nc_sources :
              ncs.ncs_label = FileLabel(hist[k].file)

(***************************************************************************)
(* C13, as stated: for an accepted token a.p with p a numeral, the stored  *)
(* address is a in full, the stored port is the value of p, and            *)
(* nc_ipport_tostr() of the stored pair is a, a colon and that value.      *)
(***************************************************************************)
C13_AsStated ==
    parsed # NULL /\ parsed.rc = 0 /\ IsNumeral(PortText(str)) =>
        /\ parsed.ip = AddressText(str)
        /\ parsed.port = NumeralValue(PortText(str))
        /\ nc_ipport_tostr(IPV4PORT_BUFSZ, parsed.ip, parsed.port) =
               AddressText(str) \o <<":">>
                   \o FormatInt(NumeralValue(PortText(str)))

\* An address of 16 bytes is accepted and stored without its last byte.
C13_Witness ==
    /\ parsed # NULL
    /\ parsed.rc = 0
    /\ PortText(str) = <<"8", "0">>
    /\ Len(AddressText(str)) = IPV4_STRBUFSZ
    /\ parsed.ip = SubSeq(AddressText(str), 1, IPV4_STRBUFSZ - 1)
    /\ parsed.port = 80

(***************************************************************************)
(* C14: after n rows of a tuple its connection's count is min(n, 255): 1   *)
(* after the first row, one more per row, 255 from the 255th row on.       *)
(***************************************************************************)
C14_CountSaturates ==
    [][/\ Cardinality(netcmp'.nc_conns) = 1
       /\ \A c \in netcmp'.nc_conns :
             /\ c.ncc_nsources = Min(nobs', UINT8_MAX)
             /\ c.ncc_nsources <= nobs'
             /\ \A old \in netcmp.nc_conns :
                   c.ncc_nsources =
                       IF old.ncc_nsources < UINT8_MAX
                       THEN old.ncc_nsources + 1 ELSE UINT8_MAX]_vars

\* More rows than the count can hold.
C14_Witness ==
    /\ nobs > UINT8_MAX + 1
    /\ \E c \in netcmp.nc_conns : c.ncc_nsources = UINT8_MAX

(***************************************************************************)
(* C15: a connection's two slots hold the Sources keyed by the local       *)
(* addresses of its first and second observations, in that order (the      *)
(* second slot is empty while there is one observation); a row for a       *)
(* connection that already has two changes the count only.                 *)
(***************************************************************************)
SourceOf(ip) == CHOOSE ncs \in netcmp.nc_sources : ncs.ncs_ip = ip

RetainsFirstTwo ==
    \A c \in netcmp.nc_conns :
        LET obs == ObservationsOf(ConnPair(c))
            k1  == First(obs)
            k2  == First(obs \ {k1})
        IN  /\ obs # {}
            /\ InSourceRegistry(RowLocal(hist[k1]).ip)
            /\ c.ncc_sources[1] = SourceOf(RowLocal(hist[k1]).ip)
            /\ c.ncc_sources[2] =
                   IF Cardinality(obs) = 1 THEN NULL
                   ELSE SourceOf(RowLocal(hist[k2]).ip)

C15_FirstTwoSourcesKept ==
    [][/\ RetainsFirstTwo'
       /\ \A c \in netcmp.nc_conns : \A d \in netcmp'.nc_conns :
             ConnPair(c) = ConnPair(d) /\ c.ncc_nsources >= 2 =>
                 /\ d.ncc_sources = c.ncc_sources
                 /\ d.ncc_nsources \in {c.ncc_nsources, c.ncc_nsources + 1}
                 /\ d.ncc_state = c.ncc_state]_vars

\* A third observation made from an address that neither slot holds.
C15_Witness ==
    \E c \in netcmp.nc_conns :
        LET obs == ObservationsOf(ConnPair(c))
        IN  /\ c.ncc_nsources = 3
            /\ \E k \in obs :
                  /\ \A m \in obs : m <= k
                  /\ RowLocal(hist[k]).ip # c.ncc_sources[1].ncs_ip
                  /\ RowLocal(hist[k]).ip # c.ncc_sources[2].ncs_ip

(***************************************************************************)
(* C16: a connection's state is the state of the first observation of its  *)
(* tuple, whatever later observations report; so it is pruned exactly      *)
(* when that first state is TIME_WAIT.                                     *)
(***************************************************************************)
FirstState(c) == hist[First(ObservationsOf(ConnPair(c)))].line.state

C16_FirstStateKept ==
    \A c \in netcmp.nc_conns :
        /\ ObservationsOf(ConnPair(c)) # {}
        /\ c.ncc_state = FirstState(c)
        /\ pc = "done" =>
              ("pruned" \in Outcomes(c) <=> FirstState(c) = "TIME_WAIT")

\* Seen as ESTABLISHED and then as TIME_WAIT: reported, and not as pruned.
C16_Witness ==
    /\ pc = "done"
    /\ report.ntimewait = 0
    /\ \E c \in netcmp.nc_conns :
          /\ c.ncc_state = "ESTABLISHED"
          /\ \E k \in ObservationsOf(ConnPair(c)) :
                hist[k].line.state = "TIME_WAIT"

(***************************************************************************)
(* C17: of the connections with one observation that are not pruned, the   *)
(* report counts as asymmetric those with both addresses in the source     *)
(* registry, and prints one detail line for each; it counts the others     *)
(* as external and prints no detail line for them.                         *)
(***************************************************************************)
LoneConns ==
    {c \in netcmp.nc_conns : c.ncc_nsources = 1 /\ c.ncc_state # "TIME_WAIT"}

BothKnown(c) == InSourceRegistry(c.ncc_ip1) /\ InSourceRegistry(c.ncc_ip2)

C17_AbandonedNeedsBothSides ==
    pc = "done" =>
        /\ report.nasymmetric = Cardinality({c \in LoneConns : BothKnown(c)})
        /\ report.nexternal = Cardinality({c \in LoneConns : ~BothKnown(c)})
        /\ Len(report.detail) = report.nasymmetric
        /\ \A c \in LoneConns :
              /\ "asymmetric" \in Outcomes(c) <=> BothKnown(c)
              /\ "external" \in Outcomes(c) <=> ~BothKnown(c)
              /\ DetailLabels(c) =
                     IF BothKnown(c) THEN {c.ncc_sources[1].ncs_label} ELSE {}

\* A lone connection with only its first address known: no detail line.
C17_Witness ==
    /\ pc = "done"
    /\ report.nexternal = 1
    /\ report.nasymmetric = 0
    /\ report.detail = <<>>
    /\ \E c \in LoneConns :
          InSourceRegistry(c.ncc_ip1) /\ ~InSourceRegistry(c.ncc_ip2)

(***************************************************************************)
(* C18: every connection in the tree has an address that is a key of the   *)
(* source registry: the local address of each of its observations is; so   *)
(* no connection has both addresses unknown.                               *)
(***************************************************************************)
C18_OneEndpointAlwaysKnown ==
    \A c \in netcmp.nc_conns :
        /\ InSourceRegistry(c.ncc_ip1) \/ InSourceRegistry(c.ncc_ip2)
        /\ \A k \in ObservationsOf(ConnPair(c)) :
              /\ RowLocal(hist[k]).ip \in {c.ncc_ip1, c.ncc_ip2}
              /\ InSourceRegistry(RowLocal(hist[k]).ip)

\* The known address is the second of the sorted pair, the first is not.
C18_Witness ==
    \E c \in netcmp.nc_conns :
        /\ ~InSourceRegistry(c.ncc_ip1)
        /\ InSourceRegistry(c.ncc_ip2)
        /\ ObservationsOf(ConnPair(c)) # {}

(***************************************************************************)
(* C19: every connection has a count of at least 1 and min(count, 2)       *)
(* sources stored, from the first slot on, each a node of the source       *)
(* registry; so the assert() of nc_report() never fails and every detail   *)
(* line prints the label of a real Source.                                 *)
(***************************************************************************)
C19_AssertNeverFails ==
    /\ \A c \in netcmp.nc_conns :
          /\ c.ncc_nsources >= 1
          /\ Cardinality({n \in 1..2 : c.ncc_sources[n] # NULL}) =
                 Min(c.ncc_nsources, 2)
          /\ c.ncc_sources[1] \in netcmp.nc_sources
          /\ c.ncc_sources[2] \in netcmp.nc_sources \cup {NULL}
          /\ pc = "main" => ~ReportConn(netcmp, ReportInit, c).aborted
    /\ pc # "aborted"
    /\ ~report.aborted
    /\ \A n \in 1..Len(report.detail) :
          \E ncs \in netcmp.nc_sources : report.detail[n].label = ncs.ncs_label

\* The report passed the assert() and printed a detail line.
C19_Witness ==
    /\ pc = "done"
    /\ Len(report.detail) = 1
    /\ \E c \in netcmp.nc_conns :
          /\ c.ncc_nsources = 1
          /\ c.ncc_sources[2] = NULL
          /\ report.detail[1].label = c.ncc_sources[1].ncs_label
    /\ \E c \in netcmp.nc_conns : c.ncc_nsources = 2

(***************************************************************************)
(* C20: when all observations of each tuple report the same state, the     *)
(* six counters and the set of connections reported asymmetric are the     *)
(* same for the rows read in any order as for the rows as given.           *)
(***************************************************************************)
AgreeOnState ==
    \A k, j \in Observations :
        RowPair(hist[k]) = RowPair(hist[j]) =>
            hist[k].line.state = hist[j].line.state

\* What the report says of a run, but for the labels.
Summary(ncp, r) ==
    [nlocalhost |-> ncp.nc_nlocalhost, ntimewait |-> r.ntimewait,
     nerror |-> r.nerror, nsymmetric |-> r.nsymmetric,
     nexternal |-> r.nexternal, nasymmetric |-> r.nasymmetric,
     asymmetric |-> {<<r.detail[n].buf1, r.detail[n].buf2>> :
                        n \in 1..Len(r.detail)}]

ResultOf(rows) ==
    LET ncp == ReadRows(nc_init, rows)
    IN  Summary(ncp, nc_report(ncp))

C20_OrderIndependent ==
    pc = "done" /\ AgreeOnState => Summary(netcmp, report) = ResultOf(hist)

\* Three rows whose order changed the trees (which sources a connection
\* retains) and not the report.
C20_Witness ==
    /\ pc = "done"
    /\ AgreeOnState
    /\ Len(hist) = 3
    /\ netcmp.nc_conns # ReadRows(nc_init, hist).nc_conns
    /\ FiveCounts(report) >= 2
    /\ Summary(netcmp, report) = ResultOf(hist)

====
